---- MODULE Spec2Model ----
(***************************************************************************)
(* The concurrency examples of go-learn: cmd/goroutines/goroutines.go      *)
(* (WaitGroups, Mutexes) and cmd/channels/channels.go (channels, for-range *)
(* loops over channels, select and the signal-only channel).               *)
(*                                                                         *)
(* A goroutine is a record [fn, pc, i]: the function it runs, the index of *)
(* the statement it is about to execute and its one local variable.  The   *)
(* live goroutines form a bag, since the goroutines of one `go` statement  *)
(* executed in a loop are indistinguishable.  The statements of a function *)
(* are the elements of the sequence Code(fn); one action of the model      *)
(* executes one kind of statement.                                         *)
(***************************************************************************)
EXTENDS Bags, FiniteSets, Integers, Sequences, TLC

VARIABLES
    gs,       \* the bag of live goroutines, main among them
    wg,       \* the counter of the package-level sync.WaitGroup
    counter,  \* the package-level int of goroutines.go
    readers,  \* read locks of the RWMutex m currently held
    writer,   \* whether the write lock of m is held
    chans,    \* channel name -> [cap, buf, closed]
    stdout,   \* the lines printed so far
    proc,     \* "running", "exited" (main returned) or "crashed" (panic)
    stack,    \* defer-panic-recover: the call stack, the running frame last
    panicking, \* defer-panic-recover: the values of the panics under way
    buffer,   \* interfaces: the bytes of BufferedWriterCloser.buffer
    written,  \* interfaces: the bytes passed to Write so far
    closeCalls \* interfaces: the calls of Close so far

vars == <<gs, wg, counter, readers, writer, chans, stdout, proc,
          stack, panicking, buffer, written, closeCalls>>

\* the state of the programs that run no goroutine
seqVars == <<stack, panicking, buffer, written, closeCalls>>

\* the state of the goroutines and of what they share
goVars == <<gs, wg, counter, readers, writer, chans>>

----------------------------------------------------------------------------
(* Statements *)

Stmt(op) == [op |-> op, ch |-> "", ch2 |-> "", n |-> 0, m |-> 0, s |-> "", t |-> "",
             next |-> 0, exit |-> 0]

\* wg.Add(n)
AddS(n) == [Stmt("add") EXCEPT !.n = n]
\* go fn()
GoS(fn) == [Stmt("go") EXCEPT !.s = fn]
\* wg.Wait()
WaitS == Stmt("wait")
\* wg.Done()
DoneS == Stmt("done")
\* fmt.Println(s) of a literal or of a variable no goroutine writes
PrintlnS(s) == [Stmt("println") EXCEPT !.s = s]
\* fmt.Printf(s + "%v" + t, i) of the local i; next # 0 is the statement that
\* follows when it is not the one below (the end of a loop body)
PrintS(s, t, next) == [Stmt("print") EXCEPT !.s = s, !.t = t, !.next = next]
\* the evaluation of the package-level counter into the local i
ReadCounterS == Stmt("readCounter")
\* counter = i + n
WriteCounterS(n) == [Stmt("writeCounter") EXCEPT !.n = n]
\* counter = n
SetCounterS(n) == [Stmt("setCounter") EXCEPT !.n = n]
RLockS == Stmt("rlock")
RUnlockS == Stmt("runlock")
LockS == Stmt("lock")
UnlockS == Stmt("unlock")
\* i = n
AssignS(n) == [Stmt("assign") EXCEPT !.n = n]
\* ch <- n
SendS(ch, n) == [Stmt("send") EXCEPT !.ch = ch, !.n = n]
\* ch <- i
SendLocalS(ch) == [Stmt("send") EXCEPT !.ch = ch, !.s = "i"]
\* i := <-ch
RecvS(ch) == [Stmt("recv") EXCEPT !.ch = ch]
\* for i := range ch { ... }: the body follows, exit is the statement after it
RangeS(ch, exit) == [Stmt("range") EXCEPT !.ch = ch, !.exit = exit]
\* for { if i, ok := <-ch; ok { ... } else { break } }
RecvOkS(ch, exit) == [Stmt("recvOk") EXCEPT !.ch = ch, !.exit = exit]
\* select { case i := <-ch: ... case <-ch2: break loop }
SelectS(ch, ch2, exit) == [Stmt("select") EXCEPT !.ch = ch, !.ch2 = ch2, !.exit = exit]
\* close(ch)
CloseS(ch) == [Stmt("close") EXCEPT !.ch = ch]
\* time.Sleep(d)
SleepS == Stmt("sleep")
\* the return of main
ReturnS == Stmt("return")

\* fmt.Println(a) of the local a
PrintlnLocalS == [Stmt("println") EXCEPT !.t = "a"]
\* fn()
CallS(fn) == [Stmt("call") EXCEPT !.s = fn]
\* defer fmt.Println(s)
DeferPrintlnS(s) == [Stmt("defer") EXCEPT !.s = s, !.t = "println"]
\* defer fmt.Println(a)
DeferPrintlnLocalS == [Stmt("defer") EXCEPT !.s = "a", !.t = "printlnLocal"]
\* defer res.Body.Close()
DeferCloseS == [Stmt("defer") EXCEPT !.t = "close"]
\* defer func() { ... }(), fn naming the function literal
DeferFuncS(fn) == [Stmt("defer") EXCEPT !.s = fn, !.t = "func"]
\* panic(s)
PanicS(s) == [Stmt("panic") EXCEPT !.s = s]
\* a := n / m of the ints n and m, kept as the text fmt.Println prints
DivideS(n, m) == [Stmt("divide") EXCEPT !.n = n, !.m = m]
\* a = s
AssignLocalS(s) == [Stmt("assignLocal") EXCEPT !.s = s]
\* a, err := f(); if err != nil { log.Fatal(err) }: s is the value of a
\* without an error, t the text of the error
OrFatalS(s, t) == [Stmt("orFatal") EXCEPT !.s = s, !.t = t]
\* if a := recover(); a != nil { ... }: the body follows, exit is the
\* statement after it
RecoverS(exit) == [Stmt("recover") EXCEPT !.exit = exit]
\* log.Println(a)
LogPrintlnS == Stmt("logPrintln")

Range(q) == {q[k] : k \in DOMAIN q}

IsPrefix(p, q) == Len(p) <= Len(q) /\ p = SubSeq(q, 1, Len(p))

RECURSIVE Repeat(_, _)
Repeat(body, n) == IF n = 0 THEN <<>> ELSE body \o Repeat(body, n - 1)

----------------------------------------------------------------------------
(* goroutines.go *)

\* for i := 0; i < 5; i++
LoopCount == 5

\* The iterations of the loop of WaitGroups Example 2 that the model runs
\* (LoopCount in the source): its goroutines run unsynchronised.
RaceLoops == 2

\* func() { fmt.Println(msg3); wg.Done() }
waitGroupAnon == <<PrintlnS("Hello"), DoneS>>

sayHi == <<ReadCounterS, PrintS("(", ") Hi, world", 0), DoneS>>

\* increment adding two to the value it read
incrementAddsTwo == <<ReadCounterS, WriteCounterS(2), DoneS>>

increment == <<ReadCounterS, WriteCounterS(1), DoneS>>

\* sayHiMutex releasing the read lock before it reads counter
sayHiMutexUnlocksFirst == <<RUnlockS, ReadCounterS, PrintS("(", ") Hi, mutex", 0), DoneS>>

sayHiMutex == <<ReadCounterS, PrintS("(", ") Hi, mutex", 0), RUnlockS, DoneS>>

\* incrementMutex releasing the write lock before counter++
incrementMutexUnlocksFirst == <<UnlockS, ReadCounterS, WriteCounterS(1), DoneS>>

incrementMutex == <<ReadCounterS, WriteCounterS(1), UnlockS, DoneS>>

\* WaitGroups, Example 1
waitGroupEx1 == <<AddS(1), GoS("waitGroupAnon"), WaitS>>

\* the loop body accounting for one of its two goroutines only
waitGroupEx2BodyAddsOne == <<AddS(1), GoS("sayHi"), GoS("increment")>>

\* the loop body calling wg.Add after it has launched the goroutines
waitGroupEx2BodyAddsLate == <<GoS("sayHi"), GoS("increment"), AddS(2)>>

\* WaitGroups, Example 2: the body of the loop
waitGroupEx2Body == <<AddS(2), GoS("sayHi"), GoS("increment")>>

\* the loop body taking no read lock for sayHiMutex
mutexEx1BodyNoReadLock == <<AddS(2), GoS("sayHiMutex"), LockS, GoS("incrementMutex")>>

\* Mutexes, Example 1: the body of the loop
mutexEx1Body == <<AddS(2), RLockS, GoS("sayHiMutex"), LockS, GoS("incrementMutex")>>

\* main, the WaitGroups section.  The three examples before it (go and
\* time.Sleep) touch none of wg, counter and m.  ReturnS ends the part of main
\* that a program of the model runs.
waitGroups ==
    <<PrintlnS("#### WaitGroups ####")>>
    \o waitGroupEx1
    \o Repeat(waitGroupEx2Body, RaceLoops)
    \o <<WaitS, PrintlnS(""), ReturnS>>

\* main, from the Mutexes section to its return
mutexes ==
    <<PrintlnS("#### Mutexes ####"), SetCounterS(0)>>
    \o Repeat(mutexEx1Body, LoopCount)
    \o <<WaitS, PrintlnS(""), PrintlnS("#### GOMAXPROCS ####"),
         PrintlnS("GOMAXPROCS: n"), ReturnS>>

----------------------------------------------------------------------------
(* channels.go *)

\* make(chan int, 50), make(chan logEntry, 50)
BufCap == 50

\* for j := 0; j < 3; j++
BasicsLoopCount == 3

\* the messages of the log entries main sends; an entry travels as its index
logMessages == <<"Starting application", "Finishing application">>

\* Channel basics, Example 1
basicsEx1Receiver == <<RecvS("ch"), PrintS("", "", 0), DoneS>>
\* the sender assigning 27 to i before it sends i
basicsEx1SenderAssignsFirst == <<AssignS(42), AssignS(27), SendLocalS("ch"), DoneS>>
basicsEx1Sender == <<AssignS(42), SendLocalS("ch"), AssignS(27), DoneS>>
basicsEx1 == <<AddS(2), GoS("basicsEx1Receiver"), GoS("basicsEx1Sender"), WaitS>>

\* Channel basics, Example 2
basicsEx2Receiver == <<RecvS("ch"), PrintS("", "", 0), DoneS>>
\* the sender sending 33 twice
basicsEx2SenderSendsTwice == <<SendS("ch", 33), SendS("ch", 33), DoneS>>
basicsEx2Sender == <<SendS("ch", 33), DoneS>>
basicsEx2Body == <<AddS(2), GoS("basicsEx2Receiver"), GoS("basicsEx2Sender")>>
basicsEx2 == Repeat(basicsEx2Body, BasicsLoopCount) \o <<WaitS>>

\* Channel basics, Example 3 (commented out in the source)
\* the receiver receiving in a loop
basicsEx3ReceiverLoops == <<RangeS("ch", 3), PrintS("", "", 1), DoneS>>
basicsEx3Receiver == <<RecvS("ch"), PrintS("", "", 0), DoneS>>
basicsEx3Sender == <<SendS("ch", 42), DoneS>>
basicsEx3 ==
    <<AddS(1), GoS("basicsEx3Receiver")>>
    \o Repeat(<<AddS(1), GoS("basicsEx3Sender")>>, BasicsLoopCount)
    \o <<WaitS>>

\* Restricting data flow, Example 1
flowEx1First == <<RecvS("ch"), PrintS("", "", 0), SendS("ch", 27), DoneS>>
flowEx1Second == <<SendS("ch", 42), RecvS("ch"), PrintS("", "", 0), DoneS>>
flowEx1 == <<AddS(2), GoS("flowEx1First"), GoS("flowEx1Second"), WaitS>>

\* Restricting data flow, Example 2
flowEx2Receiver == <<RecvS("ch"), PrintS("", "", 0), DoneS>>
flowEx2Sender == <<SendS("ch", 42), DoneS>>
flowEx2 == <<AddS(2), GoS("flowEx2Receiver"), GoS("flowEx2Sender"), WaitS>>

\* Buffered channels, Example 1
\* the receiver receiving once for each value sent
bufferedEx1ReceiverTakesBoth ==
    <<RecvS("bufCh"), PrintS("", "", 0), RecvS("bufCh"), PrintS("", "", 0), DoneS>>
bufferedEx1Receiver == <<RecvS("bufCh"), PrintS("", "", 0), DoneS>>
bufferedEx1Sender == <<SendS("bufCh", 42), SendS("bufCh", 27), DoneS>>
bufferedEx1 == <<AddS(2), GoS("bufferedEx1Receiver"), GoS("bufferedEx1Sender"), WaitS>>

\* For loops with channels, Example 1 (commented out in the source)
loopEx1Receiver == <<RangeS("loopCh1", 3), PrintS("", "", 1), DoneS>>
loopEx1Sender == <<SendS("loopCh1", 42), SendS("loopCh1", 27), DoneS>>
loopEx1 == <<AddS(2), GoS("loopEx1Receiver"), GoS("loopEx1Sender"), WaitS>>

\* For loops with channels, Example 2
loopEx2Receiver == <<RangeS("loopCh2", 3), PrintS("", "", 1), DoneS>>
\* the sender closing the channel before its last send
loopEx2SenderClosesEarly ==
    <<SendS("loopCh2", 42), CloseS("loopCh2"), SendS("loopCh2", 27), DoneS>>
loopEx2Sender == <<SendS("loopCh2", 42), SendS("loopCh2", 27), CloseS("loopCh2"), DoneS>>
loopEx2 == <<AddS(2), GoS("loopEx2Receiver"), GoS("loopEx2Sender"), WaitS>>

\* For loops with channels, Example 3 (commented out in the source)
loopEx3Receiver == <<RangeS("loopCh3", 3), PrintS("", "", 1), DoneS>>
loopEx3Sender == <<SendS("loopCh3", 42), CloseS("loopCh3"), SendS("loopCh3", 27), DoneS>>
loopEx3 == <<AddS(2), GoS("loopEx3Receiver"), GoS("loopEx3Sender"), WaitS>>

\* For loops with channels, Example 4
loopEx4Receiver == <<RecvOkS("loopCh4", 3), PrintS("", "", 1), DoneS>>
loopEx4Sender == <<SendS("loopCh4", 42), SendS("loopCh4", 27), CloseS("loopCh4"), DoneS>>
loopEx4 == <<AddS(2), GoS("loopEx4Receiver"), GoS("loopEx4Sender"), WaitS>>

\* the logger going back to its select after the done signal
loggerKeepsRunning ==
    <<SelectS("logCh", "doneCh", 1), [Stmt("printLog") EXCEPT !.next = 1]>>

\* func logger()
logger == <<SelectS("logCh", "doneCh", 3), [Stmt("printLog") EXCEPT !.next = 1]>>

\* main sending the two entries in the other order
selectExSwapsEntries ==
    <<PrintlnS("#### Select & signal-only channels ####"), GoS("logger"),
      SendS("logCh", 2), SendS("logCh", 1), SleepS, SendS("doneCh", 0)>>

\* Select & signal-only channels
selectEx ==
    <<PrintlnS("#### Select & signal-only channels ####"), GoS("logger"),
      SendS("logCh", 1), SendS("logCh", 2), SleepS, SendS("doneCh", 0)>>

\* main of channels.go
channelsMain ==
    <<PrintlnS("#### Channel basics ####")>> \o basicsEx1 \o basicsEx2
    \o <<PrintlnS(""), PrintlnS("#### Restricting data flow ####")>>
    \o flowEx1 \o flowEx2
    \o <<PrintlnS(""), PrintlnS("#### Buffered channels ####")>> \o bufferedEx1
    \o <<PrintlnS(""), PrintlnS("#### For loops with channels ####")>>
    \o loopEx2 \o loopEx4
    \o <<PrintlnS("")>> \o selectEx \o <<ReturnS>>

----------------------------------------------------------------------------
(* defer-panic-recover.go *)

basicDefer ==
    <<DeferPrintlnS("I should print first"), DeferPrintlnS("I should print second"),
      PrintlnS("I should print third")>>

practicalDefer ==
    <<OrFatalS("res", "Get: error"), DeferCloseS, OrFatalS("{json}", "ReadAll: error"),
      PrintlnLocalS>>

eagerArgResDefer == <<AssignLocalS("start"), DeferPrintlnLocalS, AssignLocalS("end")>>

deferAndPanic ==
    <<PrintlnS("Start"), DeferPrintlnS("This was deferred"),
      PanicS("Goodbye, cruel world!"), PrintlnS("End")>>

\* the function literal panicAndRecover defers
recoverFunc == <<RecoverS(3), LogPrintlnS>>

panicAndRecover ==
    <<PrintlnS("About to panic"), DeferFuncS("recoverFunc"),
      PanicS("Goodbye, cruel world!"), PrintlnS("Done panicking")>>

\* main with the statements extra in the place of those the source has
\* commented out in its Panic section, extra[k] after the k-th Println
dprMainWith(extra) ==
    <<PrintlnS("#### Defer ####"), CallS("basicDefer"), CallS("practicalDefer"),
      CallS("eagerArgResDefer"), PrintlnS(""), PrintlnS("#### Panic ####"),
      PrintlnS("Dividing by zero causes the go runtime to panic")>>
    \o extra[1]
    \o <<PrintlnS("We can explicitly panic in go")>>
    \o extra[2]
    \o <<PrintlnS("Deferred statements are executed before panicking")>>
    \o extra[3]
    \o <<PrintlnS(""), PrintlnS("#### Recover ####"), PrintlnS("Start"),
         CallS("panicAndRecover"), PrintlnS("End")>>

\* main as it stands
dprMain == dprMainWith(<<<<>>, <<>>, <<>>>>)

\* main with a, b := 1, 0; ans := a / b; fmt.Println(ans)
dprMainDivides == dprMainWith(<<<<DivideS(1, 0), PrintlnLocalS>>, <<>>, <<>>>>)

\* main with panic("Goodbye, cruel world!")
dprMainPanics == dprMainWith(<<<<>>, <<PanicS("Goodbye, cruel world!")>>, <<>>>>)

\* main with deferAndPanic()
dprMainDefersAndPanics == dprMainWith(<<<<>>, <<>>, <<CallS("deferAndPanic")>>>>)

----------------------------------------------------------------------------
(* interfaces.go *)

\* v := make([]byte, 8), bwc.buffer.Len() > 8, bwc.buffer.Next(8)
ChunkLen == 8

\* []byte("Hello, interface composition!"), a byte a string of one character
helloComposition ==
    <<"H", "e", "l", "l", "o", ",", " ", "i", "n", "t", "e", "r", "f", "a",
      "c", "e", " ", "c", "o", "m", "p", "o", "s", "i", "t", "i", "o", "n",
      "!">>

\* []byte("Hello, interface type conversion!")
helloConversion ==
    <<"H", "e", "l", "l", "o", ",", " ", "i", "n", "t", "e", "r", "f", "a",
      "c", "e", " ", "t", "y", "p", "e", " ", "c", "o", "n", "v", "e", "r",
      "s", "i", "o", "n", "!">>

\* the texts main writes to a BufferedWriterCloser
Texts == {helloComposition, helloConversion}

----------------------------------------------------------------------------
(* Programs *)

\* the programs of the source as it stands
SourceMains == {"waitGroups", "mutexes", "channelsMain"}

\* the examples on one channel, each run on its own, those the source has
\* commented out among them
ExampleMains == {"basicsEx3", "bufferedEx1", "loopEx1", "loopEx2", "loopEx3", "loopEx4"}

MainFns == SourceMains \cup ExampleMains

\* the functions run with a go statement
TaskFns ==
    {"waitGroupAnon", "sayHi", "increment", "sayHiMutex", "incrementMutex",
     "basicsEx1Receiver", "basicsEx1Sender", "basicsEx2Receiver", "basicsEx2Sender",
     "basicsEx3Receiver", "basicsEx3Sender", "flowEx1First", "flowEx1Second",
     "flowEx2Receiver", "flowEx2Sender", "bufferedEx1Receiver", "bufferedEx1Sender",
     "loopEx1Receiver", "loopEx1Sender", "loopEx2Receiver", "loopEx2Sender",
     "loopEx3Receiver", "loopEx3Sender", "loopEx4Receiver", "loopEx4Sender", "logger"}

Code(fn) ==
    CASE fn = "waitGroups" -> waitGroups
      [] fn = "mutexes" -> mutexes
      [] fn = "waitGroupAnon" -> waitGroupAnon
      [] fn = "sayHi" -> sayHi
      [] fn = "increment" -> increment
      [] fn = "sayHiMutex" -> sayHiMutex
      [] fn = "incrementMutex" -> incrementMutex
      [] fn = "channelsMain" -> channelsMain
      [] fn = "basicsEx1Receiver" -> basicsEx1Receiver
      [] fn = "basicsEx1Sender" -> basicsEx1Sender
      [] fn = "basicsEx2Receiver" -> basicsEx2Receiver
      [] fn = "basicsEx2Sender" -> basicsEx2Sender
      [] fn = "basicsEx3" -> basicsEx3 \o <<ReturnS>>
      [] fn = "basicsEx3Receiver" -> basicsEx3Receiver
      [] fn = "basicsEx3Sender" -> basicsEx3Sender
      [] fn = "flowEx1First" -> flowEx1First
      [] fn = "flowEx1Second" -> flowEx1Second
      [] fn = "flowEx2Receiver" -> flowEx2Receiver
      [] fn = "flowEx2Sender" -> flowEx2Sender
      [] fn = "bufferedEx1" -> bufferedEx1 \o <<ReturnS>>
      [] fn = "bufferedEx1Receiver" -> bufferedEx1Receiver
      [] fn = "bufferedEx1Sender" -> bufferedEx1Sender
      [] fn = "loopEx1" -> loopEx1 \o <<ReturnS>>
      [] fn = "loopEx1Receiver" -> loopEx1Receiver
      [] fn = "loopEx1Sender" -> loopEx1Sender
      [] fn = "loopEx2" -> loopEx2 \o <<ReturnS>>
      [] fn = "loopEx2Receiver" -> loopEx2Receiver
      [] fn = "loopEx2Sender" -> loopEx2Sender
      [] fn = "loopEx3" -> loopEx3 \o <<ReturnS>>
      [] fn = "loopEx3Receiver" -> loopEx3Receiver
      [] fn = "loopEx3Sender" -> loopEx3Sender
      [] fn = "loopEx4" -> loopEx4 \o <<ReturnS>>
      [] fn = "loopEx4Receiver" -> loopEx4Receiver
      [] fn = "loopEx4Sender" -> loopEx4Sender
      [] fn = "logger" -> logger
      [] fn = "dprMain" -> dprMain
      [] fn = "dprMainDivides" -> dprMainDivides
      [] fn = "dprMainPanics" -> dprMainPanics
      [] fn = "dprMainDefersAndPanics" -> dprMainDefersAndPanics
      [] fn = "basicDefer" -> basicDefer
      [] fn = "practicalDefer" -> practicalDefer
      [] fn = "eagerArgResDefer" -> eagerArgResDefer
      [] fn = "deferAndPanic" -> deferAndPanic
      [] fn = "recoverFunc" -> recoverFunc
      [] fn = "panicAndRecover" -> panicAndRecover

Chans == {"ch", "bufCh", "loopCh1", "loopCh2", "loopCh3", "loopCh4", "logCh", "doneCh"}

\* the channels made with a buffer: make(chan T, 50)
Buffered == Chans \ {"ch", "doneCh"}

\* the channels made without a size given a buffer of one value
ChanCapBuffersAll(c) == IF c \in Buffered THEN BufCap ELSE 1

\* the capacity the source gives channel c
ChanCap(c) == IF c \in Buffered THEN BufCap ELSE 0

\* the values of counter with which main can reach the Mutexes section: each
\* of the LoopCount unsynchronised increments adds one or is lost
InitialCounter(fn) == IF fn = "mutexes" THEN 1..LoopCount ELSE {0}

----------------------------------------------------------------------------
(* The state of the program *)

Live == BagToSet(gs)

IsMain(g) == g.fn \in MainFns

Cur(g) == Code(g.fn)[g.pc]

At(g, op) == proc = "running" /\ g \in Live /\ Cur(g).op = op

\* the statement after the one at g.pc
NextPc(g) == IF Cur(g).next # 0 THEN Cur(g).next ELSE g.pc + 1

\* the bag with goroutine g moved to statement pc with local i; a goroutine
\* whose function has no statement left has returned
Moved(bag, g, pc, i) ==
    LET rest == bag (-) SetToBag({g})
    IN  IF pc > Len(Code(g.fn)) THEN rest
        ELSE rest (+) SetToBag({[fn |-> g.fn, pc |-> pc, i |-> i]})

Advance(g) == gs' = Moved(gs, g, NextPc(g), g.i)

Spawned(fn) == [fn |-> fn, pc |-> 1, i |-> 0]

\* main alone, about to run program fn; caps are the capacities a buffered
\* channel may have been made with
InitWith(fns, caps) ==
    /\ \E fn \in fns :
         /\ gs = SetToBag({Spawned(fn)})
         /\ counter \in InitialCounter(fn)
    /\ wg = 0
    /\ readers = 0
    /\ writer = FALSE
    /\ \E k \in caps :
         chans = [c \in Chans |->
                    [cap |-> IF c \in Buffered THEN k ELSE ChanCap(c),
                     buf |-> <<>>, closed |-> FALSE]]
    /\ stdout = <<>>
    /\ proc = "running"
    /\ stack = <<>>
    /\ panicking = <<>>
    /\ buffer = <<>>
    /\ written = <<>>
    /\ closeCalls = 0

----------------------------------------------------------------------------
(* sync.WaitGroup *)

Add(g) ==
    /\ At(g, "add")
    /\ wg' = wg + Cur(g).n
    /\ Advance(g)
    /\ UNCHANGED <<counter, readers, writer, chans, stdout, proc>>
    /\ UNCHANGED seqVars

\* a negative counter panics ("sync: negative WaitGroup counter")
Done(g) ==
    /\ At(g, "done")
    /\ wg' = wg - 1
    /\ proc' = IF wg - 1 < 0 THEN "crashed" ELSE proc
    /\ Advance(g)
    /\ UNCHANGED <<counter, readers, writer, chans, stdout>>
    /\ UNCHANGED seqVars

\* a Wait that returns with goroutines outstanding
WaitNoBlock(g) ==
    /\ At(g, "wait")
    /\ Advance(g)
    /\ UNCHANGED <<wg, counter, readers, writer, chans, stdout, proc>>
    /\ UNCHANGED seqVars

Wait(g) ==
    /\ At(g, "wait")
    /\ wg = 0
    /\ Advance(g)
    /\ UNCHANGED <<wg, counter, readers, writer, chans, stdout, proc>>
    /\ UNCHANGED seqVars

Go(g) ==
    /\ At(g, "go")
    /\ gs' = Moved(gs, g, NextPc(g), g.i) (+) SetToBag({Spawned(Cur(g).s)})
    /\ UNCHANGED <<wg, counter, readers, writer, chans, stdout, proc>>
    /\ UNCHANGED seqVars

\* the return of main ends the program and every goroutine with it
Return(g) ==
    /\ At(g, "return")
    /\ gs' = SetToBag({g})
    /\ proc' = "exited"
    /\ UNCHANGED <<wg, counter, readers, writer, chans, stdout>>
    /\ UNCHANGED seqVars

----------------------------------------------------------------------------
(* sync.RWMutex *)

RLock(g) ==
    /\ At(g, "rlock")
    /\ ~writer
    /\ readers' = readers + 1
    /\ Advance(g)
    /\ UNCHANGED <<wg, counter, writer, chans, stdout, proc>>
    /\ UNCHANGED seqVars

\* "fatal error: sync: RUnlock of unlocked RWMutex" when no read lock is held
RUnlock(g) ==
    /\ At(g, "runlock")
    /\ readers' = IF readers > 0 THEN readers - 1 ELSE readers
    /\ proc' = IF readers > 0 THEN proc ELSE "crashed"
    /\ Advance(g)
    /\ UNCHANGED <<wg, counter, writer, chans, stdout>>
    /\ UNCHANGED seqVars

Lock(g) ==
    /\ At(g, "lock")
    /\ ~writer
    /\ readers = 0
    /\ writer' = TRUE
    /\ Advance(g)
    /\ UNCHANGED <<wg, counter, readers, chans, stdout, proc>>
    /\ UNCHANGED seqVars

\* an Unlock that leaves the write lock held
UnlockKeepsWriter(g) ==
    /\ At(g, "unlock")
    /\ Advance(g)
    /\ UNCHANGED <<wg, counter, readers, writer, chans, stdout, proc>>
    /\ UNCHANGED seqVars

\* "fatal error: sync: Unlock of unlocked RWMutex" when the write lock is free
Unlock(g) ==
    /\ At(g, "unlock")
    /\ writer' = FALSE
    /\ proc' = IF writer THEN proc ELSE "crashed"
    /\ Advance(g)
    /\ UNCHANGED <<wg, counter, readers, chans, stdout>>
    /\ UNCHANGED seqVars

----------------------------------------------------------------------------
(* The counter and the console *)

ReadCounter(g) ==
    /\ At(g, "readCounter")
    /\ gs' = Moved(gs, g, NextPc(g), counter)
    /\ UNCHANGED <<wg, counter, readers, writer, chans, stdout, proc>>
    /\ UNCHANGED seqVars

WriteCounter(g) ==
    /\ At(g, "writeCounter")
    /\ counter' = g.i + Cur(g).n
    /\ Advance(g)
    /\ UNCHANGED <<wg, readers, writer, chans, stdout, proc>>
    /\ UNCHANGED seqVars

SetCounter(g) ==
    /\ At(g, "setCounter")
    /\ counter' = Cur(g).n
    /\ Advance(g)
    /\ UNCHANGED <<wg, readers, writer, chans, stdout, proc>>
    /\ UNCHANGED seqVars

\* the line fmt.Printf(s + "%v" + t + "\n", v) prints
Format(s, v, t) == s \o ToString(v) \o t

Printf(g) ==
    /\ At(g, "print")
    /\ stdout' = Append(stdout, Format(Cur(g).s, g.i, Cur(g).t))
    /\ Advance(g)
    /\ UNCHANGED <<wg, counter, readers, writer, chans, proc>>
    /\ UNCHANGED seqVars

Println(g) ==
    /\ At(g, "println")
    /\ stdout' = Append(stdout, Cur(g).s)
    /\ Advance(g)
    /\ UNCHANGED <<wg, counter, readers, writer, chans, proc>>
    /\ UNCHANGED seqVars

----------------------------------------------------------------------------
(* Channels *)

\* the value a send statement sends
SendValue(g) == IF Cur(g).s = "i" THEN g.i ELSE Cur(g).n

\* the channels the receiving statement st waits on
RecvChans(st) ==
    CASE st.op \in {"recv", "range", "recvOk"} -> {st.ch}
      [] st.op = "select" -> {st.ch, st.ch2}
      [] OTHER -> {}

\* a select that leaves its loop after a value from either channel
ValueToLeavesLoop(g, c) ==
    IF Cur(g).op = "select" THEN Cur(g).exit ELSE g.pc + 1

\* where goroutine g goes on after it has received a value from c
ValueTo(g, c) ==
    IF Cur(g).op = "select" /\ c = Cur(g).ch2 THEN Cur(g).exit ELSE g.pc + 1

\* where goroutine g goes on after a receive from c, closed and empty
ClosedTo(g, c) ==
    IF Cur(g).op \in {"range", "recvOk"} THEN Cur(g).exit ELSE ValueTo(g, c)

\* a send that takes no notice of the capacity
SendUnbounded(g) ==
    /\ At(g, "send")
    /\ LET c == Cur(g).ch
       IN  IF chans[c].closed
           THEN /\ proc' = "crashed"
                /\ UNCHANGED <<gs, chans>>
           ELSE /\ chans' = [chans EXCEPT ![c].buf = Append(@, SendValue(g))]
                /\ Advance(g)
                /\ UNCHANGED proc
    /\ UNCHANGED <<wg, counter, readers, writer, stdout>>
    /\ UNCHANGED seqVars

\* a send that drops its value when the channel is closed, and goes on
SendDropsOnClosed(g) ==
    /\ At(g, "send")
    /\ LET c == Cur(g).ch
       IN  /\ chans[c].closed \/ Len(chans[c].buf) < chans[c].cap
           /\ chans' = IF chans[c].closed THEN chans
                       ELSE [chans EXCEPT ![c].buf = Append(@, SendValue(g))]
    /\ Advance(g)
    /\ UNCHANGED <<wg, counter, readers, writer, stdout, proc>>
    /\ UNCHANGED seqVars

\* a send that takes no notice of the channel being closed
SendIgnoresClosed(g) ==
    /\ At(g, "send")
    /\ LET c == Cur(g).ch
       IN  /\ Len(chans[c].buf) < chans[c].cap
           /\ chans' = [chans EXCEPT ![c].buf = Append(@, SendValue(g))]
    /\ Advance(g)
    /\ UNCHANGED <<wg, counter, readers, writer, stdout, proc>>
    /\ UNCHANGED seqVars

\* a send on a closed channel that ends the sending goroutine alone
SendKillsSenderOnly(g) ==
    /\ At(g, "send")
    /\ LET c == Cur(g).ch
       IN  IF chans[c].closed
           THEN /\ gs' = gs (-) SetToBag({g})
                /\ UNCHANGED chans
           ELSE /\ Len(chans[c].buf) < chans[c].cap
                /\ chans' = [chans EXCEPT ![c].buf = Append(@, SendValue(g))]
                /\ Advance(g)
    /\ UNCHANGED <<wg, counter, readers, writer, stdout, proc>>
    /\ UNCHANGED seqVars

\* ch <- v on a buffered channel; on a closed channel it panics
\* ("send on closed channel")
Send(g) ==
    /\ At(g, "send")
    /\ LET c == Cur(g).ch
       IN  IF chans[c].closed
           THEN /\ proc' = "crashed"
                /\ UNCHANGED <<gs, chans>>
           ELSE /\ Len(chans[c].buf) < chans[c].cap
                /\ chans' = [chans EXCEPT ![c].buf = Append(@, SendValue(g))]
                /\ Advance(g)
                /\ UNCHANGED proc
    /\ UNCHANGED <<wg, counter, readers, writer, stdout>>
    /\ UNCHANGED seqVars

\* a rendezvous that a select takes only with its other channel drained
RendezvousAfterDrain(s, r) ==
    /\ At(s, "send")
    /\ proc = "running" /\ r \in Live
    /\ LET c == Cur(s).ch
       IN  /\ chans[c].cap = 0
           /\ ~chans[c].closed
           /\ c \in RecvChans(Cur(r))
           /\ \A d \in RecvChans(Cur(r)) \ {c} : chans[d].buf = <<>>
           /\ gs' = Moved(Moved(gs, s, NextPc(s), s.i), r, ValueTo(r, c), SendValue(s))
    /\ UNCHANGED <<wg, counter, readers, writer, chans, stdout, proc>>
    /\ UNCHANGED seqVars

\* ch <- v on an unbuffered channel: sender s hands its value to receiver r
Rendezvous(s, r) ==
    /\ At(s, "send")
    /\ proc = "running" /\ r \in Live
    /\ LET c == Cur(s).ch
       IN  /\ chans[c].cap = 0
           /\ ~chans[c].closed
           /\ c \in RecvChans(Cur(r))
           /\ gs' = Moved(Moved(gs, s, NextPc(s), s.i), r, ValueTo(r, c), SendValue(s))
    /\ UNCHANGED <<wg, counter, readers, writer, chans, stdout, proc>>
    /\ UNCHANGED seqVars

\* a receive that takes the value buffered last
RecvLast(g) ==
    /\ proc = "running" /\ g \in Live
    /\ \E c \in RecvChans(Cur(g)) :
         /\ chans[c].buf # <<>>
         /\ chans' = [chans EXCEPT ![c].buf = SubSeq(@, 1, Len(@) - 1)]
         /\ gs' = Moved(gs, g, ValueTo(g, c), chans[c].buf[Len(chans[c].buf)])
    /\ UNCHANGED <<wg, counter, readers, writer, stdout, proc>>
    /\ UNCHANGED seqVars

\* <-ch with a value in the buffer
Recv(g) ==
    /\ proc = "running" /\ g \in Live
    /\ \E c \in RecvChans(Cur(g)) :
         /\ chans[c].buf # <<>>
         /\ chans' = [chans EXCEPT ![c].buf = Tail(@)]
         /\ gs' = Moved(gs, g, ValueTo(g, c), Head(chans[c].buf))
    /\ UNCHANGED <<wg, counter, readers, writer, stdout, proc>>
    /\ UNCHANGED seqVars

\* a receive that takes an empty channel for a closed one
RecvEmptyEnds(g) ==
    /\ proc = "running" /\ g \in Live
    /\ \E c \in RecvChans(Cur(g)) :
         /\ chans[c].cap > 0
         /\ chans[c].buf = <<>>
         /\ gs' = Moved(gs, g, ClosedTo(g, c), 0)
    /\ UNCHANGED <<wg, counter, readers, writer, chans, stdout, proc>>
    /\ UNCHANGED seqVars

\* <-ch on a closed channel with nothing buffered: the zero value, ok = false
RecvClosed(g) ==
    /\ proc = "running" /\ g \in Live
    /\ \E c \in RecvChans(Cur(g)) :
         /\ chans[c].closed
         /\ chans[c].buf = <<>>
         /\ gs' = Moved(gs, g, ClosedTo(g, c), 0)
    /\ UNCHANGED <<wg, counter, readers, writer, chans, stdout, proc>>
    /\ UNCHANGED seqVars

\* a close that throws away what is buffered
CloseDiscards(g) ==
    /\ At(g, "close")
    /\ chans' = [chans EXCEPT ![Cur(g).ch].closed = TRUE, ![Cur(g).ch].buf = <<>>]
    /\ proc' = IF chans[Cur(g).ch].closed THEN "crashed" ELSE proc
    /\ Advance(g)
    /\ UNCHANGED <<wg, counter, readers, writer, stdout>>
    /\ UNCHANGED seqVars

\* close(ch); on a closed channel it panics ("close of closed channel")
Close(g) ==
    /\ At(g, "close")
    /\ chans' = [chans EXCEPT ![Cur(g).ch].closed = TRUE]
    /\ proc' = IF chans[Cur(g).ch].closed THEN "crashed" ELSE proc
    /\ Advance(g)
    /\ UNCHANGED <<wg, counter, readers, writer, stdout>>
    /\ UNCHANGED seqVars

Assign(g) ==
    /\ At(g, "assign")
    /\ gs' = Moved(gs, g, NextPc(g), Cur(g).n)
    /\ UNCHANGED <<wg, counter, readers, writer, chans, stdout, proc>>
    /\ UNCHANGED seqVars

\* time.Sleep: the goroutine goes on after a time that bounds no other's
Sleep(g) ==
    /\ At(g, "sleep")
    /\ Advance(g)
    /\ UNCHANGED <<wg, counter, readers, writer, chans, stdout, proc>>
    /\ UNCHANGED seqVars

\* the line the logger prints for entry e; t stands for the formatted time
LogLine(e) == "t - [INFO] " \o logMessages[e]

PrintLog(g) ==
    /\ At(g, "printLog")
    /\ stdout' = Append(stdout, LogLine(g.i))
    /\ Advance(g)
    /\ UNCHANGED <<wg, counter, readers, writer, chans, proc>>
    /\ UNCHANGED seqVars

----------------------------------------------------------------------------
(* defer, panic and recover *)

\* the frame of a call of fn; dfr: the call is a deferred one; pan: the
\* function has stopped at a panic and is running its deferred calls
Frame(fn, dfr) ==
    [fn |-> fn, pc |-> 1, a |-> "", defers |-> <<>>, dfr |-> dfr, pan |-> FALSE]

Top == stack[Len(stack)]

\* the running function has statements left
Running == proc = "running" /\ stack # <<>> /\ Top.pc <= Len(Code(Top.fn))

\* the running function has none left: it returns, its deferred calls first
Returning == proc = "running" /\ stack # <<>> /\ Top.pc > Len(Code(Top.fn))

TopStmt == Code(Top.fn)[Top.pc]

TopAt(op) == Running /\ TopStmt.op = op

SetTop(f) == [stack EXCEPT ![Len(stack)] = f]

\* the stack with the running function stopped by a panic
Stopped == SetTop([Top EXCEPT !.pc = Len(Code(Top.fn)) + 1, !.pan = TRUE])

\* main of one of the programs fns about to run, no goroutine started
InitDpr(fns) ==
    /\ gs = EmptyBag
    /\ wg = 0
    /\ counter = 0
    /\ readers = 0
    /\ writer = FALSE
    /\ chans = [c \in Chans |-> [cap |-> ChanCap(c), buf |-> <<>>, closed |-> FALSE]]
    /\ stdout = <<>>
    /\ proc = "running"
    /\ \E fn \in fns : stack = <<Frame(fn, FALSE)>>
    /\ panicking = <<>>
    /\ buffer = <<>>
    /\ written = <<>>
    /\ closeCalls = 0

\* the line log.Println(v) prints; t stands for the date and the time
LogStamp(v) == "t " \o v

\* fmt.Println(s), fmt.Println(a)
FmtPrintln ==
    /\ TopAt("println")
    /\ stdout' = Append(stdout, IF TopStmt.t = "a" THEN Top.a ELSE TopStmt.s)
    /\ stack' = SetTop([Top EXCEPT !.pc = @ + 1])
    /\ UNCHANGED <<goVars, proc, panicking, buffer, written, closeCalls>>

Call ==
    /\ TopAt("call")
    /\ stack' = Append(SetTop([Top EXCEPT !.pc = @ + 1]), Frame(TopStmt.s, FALSE))
    /\ UNCHANGED <<goVars, stdout, proc, panicking, buffer, written, closeCalls>>

\* the call a defer statement records: the arguments are evaluated now
Deferred(st, f) ==
    IF st.t = "printlnLocal" THEN [t |-> "println", s |-> f.a] ELSE [t |-> st.t, s |-> st.s]

Defer ==
    /\ TopAt("defer")
    /\ stack' = SetTop([Top EXCEPT !.pc = @ + 1,
                                   !.defers = Append(@, Deferred(TopStmt, Top))])
    /\ UNCHANGED <<goVars, stdout, proc, panicking, buffer, written, closeCalls>>

Panic ==
    /\ TopAt("panic")
    /\ panicking' = Append(panicking, TopStmt.s)
    /\ stack' = Stopped
    /\ UNCHANGED <<goVars, stdout, proc, buffer, written, closeCalls>>

\* an integer division; by zero the runtime panics
Divide ==
    /\ TopAt("divide")
    /\ IF TopStmt.m = 0
       THEN /\ panicking' = Append(panicking, "runtime error: integer divide by zero")
            /\ stack' = Stopped
       ELSE /\ stack' = SetTop([Top EXCEPT !.pc = @ + 1,
                                           !.a = ToString(TopStmt.n \div TopStmt.m)])
            /\ UNCHANGED panicking
    /\ UNCHANGED <<goVars, stdout, proc, buffer, written, closeCalls>>

AssignLocal ==
    /\ TopAt("assignLocal")
    /\ stack' = SetTop([Top EXCEPT !.pc = @ + 1, !.a = TopStmt.s])
    /\ UNCHANGED <<goVars, stdout, proc, panicking, buffer, written, closeCalls>>

\* a call that may return an error, on which log.Fatal logs it and exits the
\* program at once, no deferred call run
OrFatal ==
    /\ TopAt("orFatal")
    /\ \E err \in BOOLEAN :
         IF err
         THEN /\ stdout' = Append(stdout, LogStamp(TopStmt.t))
              /\ proc' = "exited"
              /\ UNCHANGED stack
         ELSE /\ stack' = SetTop([Top EXCEPT !.pc = @ + 1, !.a = TopStmt.s])
              /\ UNCHANGED <<stdout, proc>>
    /\ UNCHANGED <<goVars, panicking, buffer, written, closeCalls>>

\* a recover that returns the value of the panic and lets the panic go on
RecoverKeepsPanic ==
    /\ TopAt("recover")
    /\ IF Top.dfr /\ panicking # <<>>
       THEN stack' = SetTop([Top EXCEPT !.pc = @ + 1, !.a = panicking[Len(panicking)]])
       ELSE stack' = SetTop([Top EXCEPT !.pc = TopStmt.exit, !.a = ""])
    /\ UNCHANGED <<goVars, stdout, proc, panicking, buffer, written, closeCalls>>

\* recover() returns the value of the panic under way, and ends the panic,
\* when a deferred call calls it; nil otherwise
Recover ==
    /\ TopAt("recover")
    /\ IF Top.dfr /\ panicking # <<>>
       THEN /\ stack' = SetTop([Top EXCEPT !.pc = @ + 1, !.a = panicking[Len(panicking)]])
            /\ panicking' = SubSeq(panicking, 1, Len(panicking) - 1)
       ELSE /\ stack' = SetTop([Top EXCEPT !.pc = TopStmt.exit, !.a = ""])
            /\ UNCHANGED panicking
    /\ UNCHANGED <<goVars, stdout, proc, buffer, written, closeCalls>>

LogPrintln ==
    /\ TopAt("logPrintln")
    /\ stdout' = Append(stdout, LogStamp(Top.a))
    /\ stack' = SetTop([Top EXCEPT !.pc = @ + 1])
    /\ UNCHANGED <<goVars, proc, panicking, buffer, written, closeCalls>>

\* a function that returns or has stopped at a panic runs the call it
\* deferred last
RunDeferred ==
    /\ Returning
    /\ Top.defers # <<>>
    /\ LET d == Top.defers[Len(Top.defers)]
           rest == SetTop([Top EXCEPT !.defers = SubSeq(@, 1, Len(@) - 1)])
       IN  /\ stack' = IF d.t = "func" THEN Append(rest, Frame(d.s, TRUE)) ELSE rest
           /\ stdout' = IF d.t = "println" THEN Append(stdout, d.s) ELSE stdout
    /\ UNCHANGED <<goVars, proc, panicking, buffer, written, closeCalls>>

\* a function with no deferred call left returns: to its caller, which goes
\* on, or stops in its turn when the function returns with its panic not
\* recovered; a panic that leaves main ends the program
ReturnFrom ==
    /\ Returning
    /\ Top.defers = <<>>
    /\ LET unrecovered == Top.pan /\ panicking # <<>>
           callers == SubSeq(stack, 1, Len(stack) - 1)
           caller == callers[Len(callers)]
       IN  IF callers = <<>>
           THEN /\ stack' = callers
                /\ proc' = IF unrecovered THEN "crashed" ELSE "exited"
                /\ stdout' = IF unrecovered
                             THEN Append(stdout, "panic: " \o panicking[Len(panicking)])
                             ELSE stdout
           ELSE /\ stack' = IF unrecovered
                            THEN [callers EXCEPT ![Len(callers)] =
                                    [caller EXCEPT !.pc = Len(Code(caller.fn)) + 1,
                                                   !.pan = TRUE]]
                            ELSE callers
                /\ UNCHANGED <<stdout, proc>>
    /\ UNCHANGED <<goVars, panicking, buffer, written, closeCalls>>

----------------------------------------------------------------------------
(* BufferedWriterCloser *)

Min(a, b) == IF a < b THEN a ELSE b

\* string(v)
RECURSIVE Str(_)
Str(v) == IF v = <<>> THEN "" ELSE Head(v) \o Str(Tail(v))

\* the loop of Write on buffer buf with slice v, out being the lines printed:
\* for bwc.buffer.Len() > 8 { bwc.buffer.Read(v); fmt.Println(string(v)) }
RECURSIVE WriteLoop(_, _, _)
WriteLoop(buf, v, out) ==
    IF Len(buf) > ChunkLen
    THEN LET n == Min(Len(v), Len(buf))
             read == SubSeq(buf, 1, n) \o SubSeq(v, n + 1, Len(v))
         IN  WriteLoop(SubSeq(buf, n + 1, Len(buf)), read, Append(out, Str(read)))
    ELSE [buffer |-> buf, out |-> out]

\* a loop that flushes only while more than a chunk is buffered
CloseLoopLeavesRest(buf, out) == WriteLoop(buf, [k \in 1..ChunkLen |-> "0"], out)

\* the loop of Close:
\* for bwc.buffer.Len() > 0 { data := bwc.buffer.Next(8); fmt.Println(string(data)) }
RECURSIVE CloseLoop(_, _)
CloseLoop(buf, out) ==
    IF Len(buf) > 0
    THEN LET n == Min(ChunkLen, Len(buf))
         IN  CloseLoop(SubSeq(buf, n + 1, Len(buf)), Append(out, Str(SubSeq(buf, 1, n))))
    ELSE [buffer |-> buf, out |-> out]

\* func (bwc *BufferedWriterCloser) Write(data []byte) (int, error);
\* bytes.Buffer.Write returns no error, v is made of 8 zero bytes
BwcWrite(data) ==
    /\ proc = "running"
    /\ LET r == WriteLoop(buffer \o data, [k \in 1..ChunkLen |-> "0"], <<>>)
       IN  /\ buffer' = r.buffer
           /\ stdout' = stdout \o r.out
    /\ written' = Append(written, data)
    /\ UNCHANGED <<goVars, proc, stack, panicking, closeCalls>>

\* a Close that flushes with the loop of Write
BwcCloseLeavesRest ==
    /\ proc = "running"
    /\ LET r == CloseLoopLeavesRest(buffer, <<>>)
       IN  /\ buffer' = r.buffer
           /\ stdout' = stdout \o r.out
    /\ closeCalls' = closeCalls + 1
    /\ UNCHANGED <<goVars, proc, stack, panicking, written>>

\* func (bwc *BufferedWriterCloser) Close() error
BwcClose ==
    /\ proc = "running"
    /\ LET r == CloseLoop(buffer, <<>>)
       IN  /\ buffer' = r.buffer
           /\ stdout' = stdout \o r.out
    /\ closeCalls' = closeCalls + 1
    /\ UNCHANGED <<goVars, proc, stack, panicking, written>>

----------------------------------------------------------------------------
(* Specifications *)

\* The programs of the source as it stands.
Init == InitWith(SourceMains, {BufCap})

Next ==
    \/ \E g \in Live : Add(g)
    \/ \E g \in Live : Done(g)
    \/ \E g \in Live : Wait(g)
    \/ \E g \in Live : Go(g)
    \/ \E g \in Live : Return(g)
    \/ \E g \in Live : Printf(g)
    \/ \E g \in Live : Println(g)
    \/ \E g \in Live : RLock(g)
    \/ \E g \in Live : RUnlock(g)
    \/ \E g \in Live : Lock(g)
    \/ \E g \in Live : Unlock(g)
    \/ \E g \in Live : ReadCounter(g)
    \/ \E g \in Live : WriteCounter(g)
    \/ \E g \in Live : SetCounter(g)
    \/ \E g \in Live : Send(g)
    \/ \E s, r \in Live : Rendezvous(s, r)
    \/ \E g \in Live : Recv(g)
    \/ \E g \in Live : RecvClosed(g)
    \/ \E g \in Live : Close(g)
    \/ \E g \in Live : Assign(g)
    \/ \E g \in Live : Sleep(g)
    \/ \E g \in Live : PrintLog(g)

Spec == Init /\ [][Next]_vars

\* The programs of the source under the scheduler of the Go runtime: while
\* some goroutine can run, one does.
SpecFair == Spec /\ WF_vars(Next)

\* the capacities a buffered channel is made with in SpecEx
MaxCap == 2

\* Each example that runs on one channel, on its own, with the buffered
\* channel made with a capacity of 0..MaxCap or with the capacity of the source.
InitEx == InitWith(ExampleMains, 0..MaxCap \cup {BufCap})

NextEx ==
    \/ \E g \in Live : Add(g)
    \/ \E g \in Live : Done(g)
    \/ \E g \in Live : Wait(g)
    \/ \E g \in Live : Go(g)
    \/ \E g \in Live : Return(g)
    \/ \E g \in Live : Printf(g)
    \/ \E g \in Live : Send(g)
    \/ \E s, r \in Live : Rendezvous(s, r)
    \/ \E g \in Live : Recv(g)
    \/ \E g \in Live : RecvClosed(g)
    \/ \E g \in Live : Close(g)

SpecEx == InitEx /\ [][NextEx]_vars

\* the mains of defer-panic-recover.go: as it stands, and with one of the
\* statements it has commented out
DprMains == {"dprMain", "dprMainDivides", "dprMainPanics", "dprMainDefersAndPanics"}

InitSeq == InitDpr(DprMains)

NextSeq ==
    \/ FmtPrintln
    \/ Call
    \/ Defer
    \/ Panic
    \/ Divide
    \/ AssignLocal
    \/ OrFatal
    \/ Recover
    \/ LogPrintln
    \/ RunDeferred
    \/ ReturnFrom

SpecSeq == InitSeq /\ [][NextSeq]_vars

\* the calls of Write of a run
MaxWrites == 3

RECURSIVE Flatten(_)
Flatten(qs) == IF qs = <<>> THEN <<>> ELSE Head(qs) \o Flatten(Tail(qs))

\* the bytes a call of Write can be given: those that come next, in any
\* number, in a text of which the bytes written so far are the beginning
Inputs ==
    LET all == Flatten(written)
    IN  UNION {{SubSeq(t, Len(all) + 1, k) : k \in Len(all)..Len(t)} :
                  t \in {u \in Texts : IsPrefix(all, u)}}

\* NewBufferedWriterCloser()
InitBwc ==
    /\ gs = EmptyBag
    /\ wg = 0
    /\ counter = 0
    /\ readers = 0
    /\ writer = FALSE
    /\ chans = [c \in Chans |-> [cap |-> ChanCap(c), buf |-> <<>>, closed |-> FALSE]]
    /\ stdout = <<>>
    /\ proc = "running"
    /\ stack = <<>>
    /\ panicking = <<>>
    /\ buffer = <<>>
    /\ written = <<>>
    /\ closeCalls = 0

\* calls of Write and then one call of Close, as in main
NextBwc ==
    \/ \E data \in Inputs : closeCalls = 0 /\ Len(written) < MaxWrites /\ BwcWrite(data)
    \/ closeCalls = 0 /\ BwcClose

SpecBwc == InitBwc /\ [][NextBwc]_vars

----------------------------------------------------------------------------
(* Properties *)

Mains == {g \in Live : IsMain(g)}

Ops(fn) == [k \in DOMAIN Code(fn) |-> Code(fn)[k].op]

\* g has returned from a wg.Wait()
Waited(g) == \E k \in 1..(g.pc - 1) : Ops(g.fn)[k] = "wait"

\* the statement g executed last is a wg.Wait()
JustWaited(g) == g.pc > 1 /\ Ops(g.fn)[g.pc - 1] = "wait"

\* the calls of wg.Wait() g has returned from
WaitsBefore(g) == Cardinality({k \in 1..(g.pc - 1) : Ops(g.fn)[k] = "wait"})

\* g has returned from a wg.Wait() and has launched no goroutine since
Quiescent(g) ==
    \E k \in 1..(g.pc - 1) :
        /\ Ops(g.fn)[k] = "wait"
        /\ \A j \in (k + 1)..(g.pc - 1) : Ops(g.fn)[j] # "go"

\* fn calls wg.Done()
Tracked(fn) == "done" \in Range(Ops(fn))

\* the live goroutines that are to call wg.Done()
TrackedLive ==
    LET ts == {g \in Live : g.fn \in TaskFns /\ Tracked(g.fn)}
    IN  BagCardinality([g \in ts |-> gs[g]])

\* the goroutines main g has called wg.Add for and not yet launched: the go
\* statements between g.pc and the next wg.Add, wg.Wait or return
Pending(g) ==
    LET syncs == {k \in g.pc..Len(Code(g.fn)) : Ops(g.fn)[k] \in {"add", "wait", "return"}}
        stop == CHOOSE k \in syncs : \A j \in syncs : k <= j
    IN  Cardinality({k \in g.pc..(stop - 1) :
                        Ops(g.fn)[k] = "go" /\ Tracked(Code(g.fn)[k].s)})

\* every channel has the capacity the source makes it with
SourceCaps == \A c \in Chans : chans[c].cap = ChanCap(c)

\* goroutine g leaves the statement it is at
Leaves(g) == CopiesIn(g, gs') < CopiesIn(g, gs)

\* the go statements of function fn that g has executed
Launched(g, fn) ==
    Cardinality({k \in 1..(g.pc - 1) : Ops(g.fn)[k] = "go" /\ Code(g.fn)[k].s = fn})

\* the live goroutines of function fn that have not yet written counter
Unwritten(fn) ==
    LET us == {g \in Live : g.fn = fn /\ Cur(g).op \in {"readCounter", "writeCounter"}}
    IN  BagCardinality([g \in us |-> gs[g]])

\* C1: in the mutex example no increment is lost: once counter is reset, it
\* equals the number of incrementMutex goroutines launched that have written
\* it, and whenever wg.Wait() has returned it equals the number launched,
\* LoopCount, under every interleaving.
C1_ExactCount ==
    \A g \in Live :
        g.fn = "mutexes" =>
            /\ g.pc > 2 =>
                 counter = Launched(g, "incrementMutex") - Unwritten("incrementMutex")
            /\ Waited(g) => counter = LoopCount

C1_Witness ==
    \E g \in Live : g.fn = "mutexes" /\ Waited(g) /\ proc = "exited" /\ counter = LoopCount

\* C2: when main has returned from a wg.Wait() and has launched nothing since,
\* every goroutine of the batch has done the work before its wg.Done(): none is
\* live any more, and what the first batch prints has been printed.
C2_WaitAfterWork ==
    \A g \in Mains :
        /\ Quiescent(g) => BagCardinality(gs) = 1
        /\ g.fn = "waitGroups" /\ Waited(g) => "Hello" \in Range(stdout)
        /\ g.fn = "channelsMain" /\ Waited(g) => "42" \in Range(stdout)

C2_Witness ==
    \E g \in Mains :
        /\ g.fn = "channelsMain" /\ WaitsBefore(g) = 1 /\ Quiescent(g)
        /\ BagCardinality(gs) = 1 /\ "42" \in Range(stdout)

\* C3: the WaitGroup counter is never negative, and it is 0 whenever main has
\* just returned from wg.Wait(), for every batch of the one package-level wg.
C3_CounterNonNegative ==
    /\ wg >= 0
    /\ \A g \in Mains : JustWaited(g) => wg = 0

C3_Witness ==
    \E g \in Mains : g.fn = "waitGroups" /\ WaitsBefore(g) = 2 /\ JustWaited(g) /\ wg = 0

\* C4: wg.Add is called by main before the goroutines it accounts for are
\* launched and by no launched goroutine: the counter is the number of
\* goroutines accounted for and not yet launched plus the number of launched
\* goroutines that have not called wg.Done(), so it is 0 only when both are.
C4_AddBeforeLaunch ==
    /\ \A fn \in TaskFns : "add" \notin Range(Ops(fn))
    /\ \A g \in Mains :
        /\ wg = Pending(g) + TrackedLive
        /\ wg = 0 => Pending(g) = 0 /\ TrackedLive = 0

C4_Witness ==
    \E g \in Mains : g.fn = "waitGroups" /\ wg = 3 /\ Pending(g) = 2 /\ TrackedLive = 1

Accesses(g) == g.fn \in TaskFns /\ (ReadCounter(g) \/ WriteCounter(g))

\* C6 as stated: every read and every write of counter by a goroutine happens
\* while the RWMutex is held for it (sync.RWMutex records no owner: held at
\* all, for reading or for writing, is the weakest reading of the claim).
C6_GuardedAccess ==
    [][\A g \in Live : Accesses(g) => readers > 0 \/ writer]_vars

\* C6 as amended: in the mutex example sayHiMutex reads counter while a read
\* lock is held and incrementMutex reads and writes it while the write lock is
\* held, the lock having been acquired by main; in the WaitGroup example sayHi
\* and increment read and write counter while no lock is held.
C6_GuardedInMutexExample ==
    [][\A g \in Live : Accesses(g) =>
        /\ g.fn = "sayHiMutex" => readers > 0 /\ ~writer
        /\ g.fn = "incrementMutex" => writer /\ readers = 0
        /\ g.fn \in {"sayHi", "increment"} => ~writer /\ readers = 0]_vars

C6_Witness ==
    \E g \in Live : g.fn = "incrementMutex" /\ Cur(g).op = "writeCounter" /\ writer

\* C7: a channel never buffers more than its capacity; a goroutine leaves a
\* send on a channel with a buffer only when the buffer has room, its value
\* going to the end of the buffer, and leaves a send on a channel of capacity
\* 0 only in a step in which a goroutine receiving from the channel leaves
\* its receive.
C7_Capacity ==
    [][/\ \A c \in Chans : Len(chans'[c].buf) <= chans'[c].cap
       /\ \A g \in Live :
            At(g, "send") /\ Leaves(g) /\ proc' = "running" =>
              LET c == Cur(g).ch
              IN  IF chans[c].cap > 0
                  THEN /\ Len(chans[c].buf) < chans[c].cap
                       /\ chans'[c].buf = Append(chans[c].buf, SendValue(g))
                  ELSE \E r \in Live : c \in RecvChans(Cur(r)) /\ Leaves(r)]_vars

C7_Witness ==
    \E g \in Live :
        /\ At(g, "send")
        /\ chans[Cur(g).ch].cap = 1
        /\ Len(chans[Cur(g).ch].buf) = 1
        /\ ~chans[Cur(g).ch].closed

\* the examples with one sender and one receiver on one channel, which send
\* 42 and then 27, and their channels
PairChan(fn) ==
    CASE fn = "bufferedEx1" -> "bufCh"
      [] fn = "loopEx1" -> "loopCh1"
      [] fn = "loopEx2" -> "loopCh2"
      [] fn = "loopEx3" -> "loopCh3"
      [] fn = "loopEx4" -> "loopCh4"

PairMains == {"bufferedEx1", "loopEx1", "loopEx2", "loopEx3", "loopEx4"}

Lines(q) == [k \in DOMAIN q |-> ToString(q[k])]

\* the value the receiver has received and not yet printed
Held ==
    LET hs == {g \in Live : Cur(g).op = "print"}
    IN  IF hs = {} THEN <<>> ELSE <<ToString((CHOOSE g \in hs : TRUE).i)>>

\* C8: with one sender and one receiver on a channel, the values printed, the
\* value received and not yet printed and the values buffered are, in this
\* order, a prefix of the values sent: 42 is received before 27.
C8_Fifo ==
    \A g \in Mains :
        g.fn \in PairMains =>
            IsPrefix(stdout \o Held \o Lines(chans[PairChan(g.fn)].buf), <<"42", "27">>)

C8_Witness ==
    \E g \in Mains :
        /\ g.fn = "loopEx4" /\ proc = "exited" /\ stdout = <<"42", "27">>
        /\ chans["loopCh4"].cap = BufCap

\* C9: close keeps what is buffered: the receiver of Example 2 or 4 leaves its
\* loop only with the channel closed and empty and with both 42 and 27
\* printed, also when the channel was closed with both still buffered.
C9_CloseKeepsBuffered ==
    \A g \in Mains :
        g.fn \in {"loopEx2", "loopEx4"} =>
            /\ \A r \in Live :
                 r.fn \in {"loopEx2Receiver", "loopEx4Receiver"} /\ Cur(r).op = "done" =>
                    /\ chans[PairChan(g.fn)].closed
                    /\ chans[PairChan(g.fn)].buf = <<>>
                    /\ stdout = <<"42", "27">>
            /\ Waited(g) => stdout = <<"42", "27">>

C9_Witness ==
    \E g \in Mains :
        /\ g.fn = "loopEx4"
        /\ chans["loopCh4"].closed
        /\ chans["loopCh4"].buf = <<42, 27>>
        /\ stdout = <<>>

\* C10: a send on a closed channel fails at once: it is never blocked, the
\* sender never gets past it, and its value is never buffered, received or
\* printed: in the premature-closure example 27 never reaches the receiver.
C10_SendOnClosedFails ==
    /\ \A g \in Live :
         At(g, "send") /\ chans[Cur(g).ch].closed => ENABLED Send(g)
    /\ \A g \in Mains :
         g.fn = "loopEx3" =>
            /\ \A t \in Live : t.fn = "loopEx3Sender" => t.pc <= 3
            /\ \A t \in Live : t.fn = "loopEx3Receiver" => t.i # 27
            /\ 27 \notin Range(chans["loopCh3"].buf)
            /\ "27" \notin Range(stdout)

C10_Witness ==
    \E g \in Mains :
        /\ g.fn = "loopEx3" /\ proc = "crashed"
        /\ \E t \in Live : t.fn = "loopEx3Sender" /\ t.pc = 3

\* C11 as stated: a send on a closed channel hands the sender an error value:
\* the program goes on running and the sender goes on to its next statement
\* (stated for the capacities of the source).
C11_ErrorValue ==
    [][\A g \in Live :
         SourceCaps /\ Cur(g).op = "send" /\ chans[Cur(g).ch].closed /\ Send(g) =>
            proc' = "running" /\ Leaves(g)]_vars

\* C11 as amended: a send on a closed channel panics: the step ends the
\* program with every goroutine where it was and nothing sent or printed, the
\* sender never leaves the send, and no goroutine takes a step afterwards.
C11_SendOnClosedPanics ==
    [][/\ proc = "running"
       /\ \A g \in Live :
            Cur(g).op = "send" /\ chans[Cur(g).ch].closed =>
               /\ ~Leaves(g)
               /\ Send(g) => /\ proc' = "crashed"
                             /\ gs' = gs
                             /\ chans' = chans
                             /\ stdout' = stdout]_vars

C11_Witness ==
    /\ proc = "crashed"
    /\ SourceCaps
    /\ chans["loopCh3"].closed
    /\ chans["loopCh3"].buf = <<42>>
    /\ \E t \in Live : t.fn = "loopEx3Sender" /\ Cur(t).op = "send"

\* the send statements on channel c in the code of function fn
SendsOn(fn, c) ==
    {k \in DOMAIN Code(fn) : Code(fn)[k].op = "send" /\ Code(fn)[k].ch = c}

ChannelsWaited(n) ==
    \E g \in Mains : g.fn = "channelsMain" /\ WaitsBefore(g) >= n

\* C13: in Channel basics Example 1 the receiver holds 42 from its receive on,
\* whatever the sender has assigned to its i since; 42 is the line printed; and
\* whichever goroutine runs first, main returns from the wg.Wait() of the
\* example with both goroutines finished.
C13_Rendezvous ==
    /\ [](\A g \in Live : g.fn = "basicsEx1Receiver" /\ g.pc > 1 => g.i = 42)
    /\ [](ChannelsWaited(1) => Len(stdout) >= 2 /\ stdout[2] = "42")
    /\ [](\A g \in Mains : g.fn = "channelsMain" /\ g.pc = 6 => BagCardinality(gs) = 1)
    /\ (\E g \in Mains : g.fn = "channelsMain") ~> ChannelsWaited(1)

C13_Witness ==
    /\ \E g \in Live : g.fn = "basicsEx1Receiver" /\ g.pc = 2 /\ g.i = 42
    /\ \E g \in Live : g.fn = "basicsEx1Sender" /\ g.pc = 4 /\ g.i = 27

\* main g has sent the done signal; doneCh has no buffer, so the logger has
\* received it
DoneSignalled(g) ==
    /\ g.fn = "channelsMain"
    /\ \E k \in 1..(g.pc - 1) : Code(g.fn)[k].op = "send" /\ Code(g.fn)[k].ch = "doneCh"

\* no goroutine of bag runs the logger
LoggerGone(bag) == \A g \in BagToSet(bag) : g.fn # "logger"

\* C14: from the state in which the logger has received the done signal, the
\* logger is gone and stays gone, no line is printed and logCh keeps the
\* entries buffered in it.
C14_NoEmissionAfterDone ==
    [][(\E g \in Mains : DoneSignalled(g)) =>
          /\ LoggerGone(gs)
          /\ LoggerGone(gs')
          /\ stdout' = stdout
          /\ chans' = chans]_vars

C14_Witness ==
    /\ \E g \in Mains : DoneSignalled(g)
    /\ proc = "exited"
    /\ Len(chans["logCh"].buf) = 2

\* the lines of the log entries, in the order main sends them
LogLines == [e \in DOMAIN logMessages |-> LogLine(e)]

\* the log lines printed so far
Emitted == SelectSeq(stdout, LAMBDA l : l \in Range(LogLines))

\* C15 as stated: by the time main has signalled doneCh the logger has emitted
\* both lines, "Starting application" and then "Finishing application".
C15_BothLinesEmitted ==
    (\E g \in Mains : DoneSignalled(g)) => Emitted = LogLines

\* C15 as amended: the logger emits the entries it receives before the done
\* signal, in the order sent: the lines emitted are a prefix of the two lines;
\* when the done signal has been taken the logger has stopped and the entries
\* it did not receive are still buffered in logCh; and main does get to signal
\* doneCh and return.
C15_PrefixEmitted ==
    /\ [](IsPrefix(Emitted, LogLines))
    /\ [](\A g \in Mains : DoneSignalled(g) =>
            /\ LoggerGone(gs)
            /\ Emitted \o [k \in DOMAIN chans["logCh"].buf |->
                             LogLine(chans["logCh"].buf[k])] = LogLines)
    /\ (\E g \in Mains : g.fn = "channelsMain") ~>
          (proc = "exited" /\ \E g \in Mains : DoneSignalled(g))

C15_Witness ==
    /\ \E g \in Mains : DoneSignalled(g)
    /\ Emitted = <<LogLine(1)>>
    /\ chans["logCh"].buf = <<2>>

\* main g has executed go logger()
LoggerStarted(g) ==
    /\ g.fn = "channelsMain"
    /\ \E k \in 1..(g.pc - 1) : Code(g.fn)[k].op = "go" /\ Code(g.fn)[k].s = "logger"

\* a goroutine sending on doneCh leaves its send in this step
DoneTaken == \E s \in Live : At(s, "send") /\ Cur(s).ch = "doneCh" /\ Leaves(s)

\* C16: the logger leaves its select either with the head of logCh, to print
\* it, the done sender staying where it is, or with the value of the done
\* sender, logCh staying as it is, and it is gone after the step exactly in
\* the second case; with logCh empty and no done sender it is blocked; and
\* once it is gone it never runs again.
C16_StopsOnlyOnDone ==
    [][/\ \A g \in Live :
            g.fn = "logger" /\ Cur(g).op = "select" =>
               /\ Leaves(g) =>
                    \/ /\ chans["logCh"].buf # <<>>
                       /\ chans' = [chans EXCEPT !["logCh"].buf = Tail(@)]
                       /\ ~DoneTaken
                       /\ [fn |-> "logger", pc |-> 2, i |-> Head(chans["logCh"].buf)]
                             \in BagToSet(gs')
                    \/ /\ chans' = chans
                       /\ DoneTaken
                       /\ LoggerGone(gs')
               /\ chans["logCh"].buf = <<>>
                    /\ (\A s \in Live : ~(At(s, "send") /\ Cur(s).ch = "doneCh")) =>
                    ~Leaves(g)
       /\ ~LoggerGone(gs) /\ LoggerGone(gs') => DoneTaken
       /\ (\E g \in Mains : LoggerStarted(g)) /\ LoggerGone(gs) => LoggerGone(gs')]_vars

C16_Witness ==
    /\ \E g \in Mains : DoneSignalled(g)
    /\ LoggerGone(gs)
    /\ Emitted = LogLines

\* logger l is at its select with an entry buffered in logCh while m is
\* waiting to send on doneCh
BothReady(l, m) ==
    /\ l.fn = "logger" /\ Cur(l).op = "select"
    /\ chans["logCh"].buf # <<>>
    /\ At(m, "send") /\ Cur(m).ch = "doneCh"

\* C17: with an entry buffered in logCh and main waiting to send on doneCh,
\* the logger at its select can take the entry and can take the done signal;
\* when the done signal has been taken the entries buffered in logCh have not
\* been printed and no goroutine can receive or print one.
C17_EitherCase ==
    /\ \A l, m \in Live :
         BothReady(l, m) => (ENABLED Recv(l)) /\ (ENABLED Rendezvous(m, l))
    /\ \A g \in Mains :
         DoneSignalled(g) =>
            /\ \A k \in DOMAIN chans["logCh"].buf :
                 LogLine(chans["logCh"].buf[k]) \notin Range(stdout)
            /\ \A t \in Live : ~(ENABLED Recv(t)) /\ ~(ENABLED PrintLog(t))

C17_Witness ==
    /\ \E l, m \in Live : BothReady(l, m)
    /\ chans["logCh"].buf = <<2>>
    /\ Emitted = <<LogLine(1)>>

\* the live goroutines of function fn that are at statement pc
LiveAt(fn, pc) ==
    LET ls == {g \in Live : g.fn = fn /\ g.pc = pc}
    IN  BagCardinality([g \in ls |-> gs[g]])

C19_LoggerClosesLogCh ==
    (\E g \in Mains : DoneSignalled(g)) => chans["logCh"].closed

\* C20: a goroutine is past a for-range loop over a channel only with the
\* channel closed; in Example 1, whose sender never closes loopCh1, the
\* receiver never reaches its wg.Done(), main never returns from wg.Wait(),
\* and the program can only end up stopped with 42 and 27 printed, the
\* receiver blocked at its loop on the empty open channel, the WaitGroup
\* counter at 1 and main blocked in wg.Wait().
C20_RangeEndsOnlyOnClose ==
    /\ \A r \in Live : \A k \in DOMAIN Code(r.fn) :
         Code(r.fn)[k].op = "range" /\ r.pc = Code(r.fn)[k].exit =>
            chans[Code(r.fn)[k].ch].closed
    /\ \A g \in Mains :
         g.fn = "loopEx1" =>
            /\ ~chans["loopCh1"].closed
            /\ LiveAt("loopEx1Receiver", 3) = 0
            /\ Launched(g, "loopEx1Receiver") =
                  LiveAt("loopEx1Receiver", 1) + LiveAt("loopEx1Receiver", 2)
            /\ ~Waited(g)
            /\ ~(ENABLED NextEx) =>
                 /\ stdout = <<"42", "27">>
                 /\ chans["loopCh1"].buf = <<>>
                 /\ LiveAt("loopEx1Receiver", 1) = 1
                 /\ BagCardinality(gs) = 2
                 /\ wg = 1
                 /\ Cur(g).op = "wait"

C20_Witness ==
    /\ \E g \in Mains : g.fn = "loopEx1" /\ Cur(g).op = "wait"
    /\ SourceCaps
    /\ stdout = <<"42", "27">>
    /\ LiveAt("loopEx1Receiver", 1) = 1
    /\ wg = 1
    /\ ~(ENABLED NextEx)

\* C21: in the bidirectional example the first goroutine holds 42 from its
\* receive on and the second 27 from its receive on, so neither ever holds
\* the value it sends itself; 42 is printed before 27; and main always returns
\* from the wg.Wait() of the example with both goroutines finished.
C21_Bidirectional ==
    /\ [](\A g \in Live :
            /\ g.fn = "flowEx1First" => g.i = (IF g.pc > 1 THEN 42 ELSE 0)
            /\ g.fn = "flowEx1Second" => g.i = (IF g.pc > 2 THEN 27 ELSE 0))
    /\ [](ChannelsWaited(3) =>
            /\ SubSeq(stdout, 8, 9) = <<"42", "27">>
            /\ \A g \in Live : g.fn \notin {"flowEx1First", "flowEx1Second"})
    /\ (\E g \in Mains : g.fn = "channelsMain") ~> ChannelsWaited(3)

C21_Witness ==
    /\ \E g \in Live : g.fn = "flowEx1First" /\ g.pc = 4 /\ g.i = 42
    /\ \E g \in Live : g.fn = "flowEx1Second" /\ g.pc = 3 /\ g.i = 27

\* C22: in the buffered example the sender can always send, the receiver holds
\* 42 from its receive on, and main always returns from the wg.Wait() of the
\* example; from then on 27 is what bufCh buffers, only 42 has been printed
\* and no goroutine can receive from bufCh.
C22_SecondValueLost ==
    /\ [](\A g \in Live :
            /\ g.fn = "bufferedEx1Sender" /\ Cur(g).op = "send" => ENABLED Send(g)
            /\ g.fn = "bufferedEx1Receiver" => g.i = (IF g.pc > 1 THEN 42 ELSE 0))
    /\ [](ChannelsWaited(5) =>
            /\ chans["bufCh"].buf = <<27>>
            /\ SubSeq(stdout, 12, 13) = <<"#### Buffered channels ####", "42">>
            /\ Len(stdout) > 13 => stdout[14] = ""
            /\ \A g \in Live : "bufCh" \notin RecvChans(Cur(g)))
    /\ (\E g \in Mains : g.fn = "channelsMain") ~> ChannelsWaited(5)

C22_Witness ==
    /\ ChannelsWaited(5)
    /\ proc = "exited"
    /\ chans["bufCh"].buf = <<27>>

\* the lines printed after the line l, l being printed once
LinesAfter(l) ==
    LET k == CHOOSE j \in DOMAIN stdout : stdout[j] = l
    IN  SubSeq(stdout, k + 1, Len(stdout))

\* the last n lines printed
LastLines(n) == SubSeq(stdout, Len(stdout) - n + 1, Len(stdout))

\* what main prints from "Start" on
RecoverLines ==
    <<"Start", "About to panic", LogStamp("Goodbye, cruel world!"), "End">>

\* C23: a function stopped by a panic has only deferred calls above it on the
\* stack, and deferAndPanic's deferred line is printed before the panic leaves
\* it and ends the program; in the Recover section the lines printed are, in
\* this order, "Start", "About to panic", the logged panic value and "End",
\* "Done panicking" is never printed, the panic never ends the program, and
\* the program stops only when main has returned after "End".
C23_PanicRecoverOrder ==
    /\ "Done panicking" \notin Range(stdout)
    /\ \A k \in 1..(Len(stack) - 1) : stack[k].pan => stack[k + 1].dfr
    /\ \A k \in DOMAIN stack :
         stack[k].fn = "recoverFunc" /\ stack[k].pc = 2 =>
            panicking = <<>> /\ stack[k].a = "Goodbye, cruel world!"
    /\ proc = "crashed" /\ "This was deferred" \in Range(stdout) =>
         LastLines(3) = <<"Start", "This was deferred", "panic: Goodbye, cruel world!">>
    /\ "#### Recover ####" \in Range(stdout) =>
         /\ IsPrefix(LinesAfter("#### Recover ####"), RecoverLines)
         /\ proc # "crashed"
         /\ proc = "running" => ENABLED NextSeq
         /\ proc = "exited" =>
              stack = <<>> /\ LinesAfter("#### Recover ####") = RecoverLines

C23_Witness ==
    /\ proc = "exited"
    /\ stack = <<>>
    /\ LastLines(4) = RecoverLines

\* the bytes passed to Write so far, in the order written
AllWritten == Flatten(written)

\* the k-th chunk of ChunkLen bytes of q, the last one shorter if q ends in it
Chunk(q, k) == SubSeq(q, ChunkLen * (k - 1) + 1, Min(ChunkLen * k, Len(q)))

\* C24: a step of Write after which the bytes buffered and the bytes written
\* make at least 8 prints them to the console in chunks of 8, from the front
\* and in order, as long as 8 are left.
C24_WritesAtEight ==
    [][Len(written') > Len(written) =>
         LET all == buffer \o written'[Len(written')]
             new == SubSeq(stdout', Len(stdout) + 1, Len(stdout'))
         IN  Len(all) >= ChunkLen =>
                /\ Len(new) = Len(all) \div ChunkLen
                /\ \A k \in DOMAIN new : new[k] = Str(Chunk(all, k))]_vars

\* the lines of q joined
RECURSIVE Joined(_)
Joined(q) == IF q = <<>> THEN "" ELSE Head(q) \o Joined(Tail(q))

\* C28: the lines printed, joined, followed by the bytes buffered are the
\* bytes written, in order; the k-th line printed is the k-th chunk of 8 bytes
\* of the bytes written, only the line Close prints last being shorter; at
\* most 8 bytes are buffered after a Write; none is after Close.
C28_NothingLost ==
    /\ Joined(stdout) \o Str(buffer) = Str(AllWritten)
    /\ \A k \in DOMAIN stdout :
         /\ stdout[k] = Str(Chunk(AllWritten, k))
         /\ k < Len(stdout) \/ closeCalls = 0 => Len(Chunk(AllWritten, k)) = ChunkLen
    /\ Len(buffer) <= ChunkLen
    /\ closeCalls > 0 =>
         /\ buffer = <<>>
         /\ Joined(stdout) = Str(AllWritten)
         /\ Len(stdout) = (Len(AllWritten) + ChunkLen - 1) \div ChunkLen

C28_Witness ==
    /\ closeCalls = 1
    /\ Len(written) = 3
    /\ AllWritten = helloComposition
    /\ stdout = <<"Hello, i", "nterface", " composi", "tion!">>
    /\ buffer = <<>>

\* the lines sayHiMutex prints in the iterations 0..n-1
HiMutexLines(n) == [k \in 1..n |-> Format("(", k - 1, ") Hi, mutex")]

\* the goroutines of function fn that have not yet released the lock they run
\* under, the release being statement 3 of both
Locked(fn) == LiveAt(fn, 1) + LiveAt(fn, 2) + LiveAt(fn, 3)

\* C25: in the mutex example at most one goroutine at a time is before the
\* release of its lock, so no read of sayHiMutex overlaps a write of
\* incrementMutex; the sayHiMutex of iteration i reads i; and the lines
\* printed after the header are those of 0, 1, 2, 3, 4, in this order.
C25_StrictlySequential ==
    \A g \in Mains :
        g.fn = "mutexes" /\ g.pc > 2 =>
            /\ Locked("sayHiMutex") + Locked("incrementMutex") <= 1
            /\ \A t \in Live :
                 t.fn = "sayHiMutex" /\ t.pc \in {2, 3} =>
                    /\ t.i = Launched(g, "sayHiMutex") - 1
                    /\ t.i = counter
            /\ \E n \in 0..LoopCount :
                 /\ IsPrefix(<<"#### Mutexes ####">> \o HiMutexLines(n), stdout)
                 /\ n = Launched(g, "sayHiMutex")
                        - LiveAt("sayHiMutex", 1) - LiveAt("sayHiMutex", 2)
                 /\ ~Waited(g) => Len(stdout) = n + 1

C25_Witness ==
    /\ \E g \in Mains : g.fn = "mutexes" /\ Waited(g)
    /\ SubSeq(stdout, 2, LoopCount + 1) = HiMutexLines(LoopCount)
    /\ stdout[6] = "(4) Hi, mutex"

\* the lines sayHi can print for the values vs of counter
HiWorldLines(vs) == {Format("(", v, ") Hi, world") : v \in vs}

C27_PrintsAll ==
    /\ \E g \in Mains : g.fn = "waitGroups"
    /\ HiWorldLines({RaceLoops}) \subseteq Range(stdout)

\* main of the mutex example is at statement k
MutexMainAt(k) == \E g \in Mains : g.fn = "mutexes" /\ g.pc = k

\* the statements of main of the mutex example that take a lock
LockPcs == {k \in DOMAIN mutexes : mutexes[k].op \in {"rlock", "lock"}}

\* C26: under a fair schedule the mutex example does not get stuck: main
\* gets past each of its m.RLock() and m.Lock(), it returns from the final
\* wg.Wait() and ends; and when wg.Wait() has returned, all ten goroutines
\* have called Done and ended and neither lock is held.
C26_NoDeadlock ==
    /\ \A k \in LockPcs : MutexMainAt(k) ~> MutexMainAt(k + 1)
    /\ (\E g \in Mains : g.fn = "mutexes")
          ~> (proc = "exited" /\ \E g \in Mains : g.fn = "mutexes" /\ Waited(g))
    /\ [](\A g \in Mains :
            g.fn = "mutexes" =>
               /\ proc # "crashed"
               /\ Waited(g) =>
                    /\ wg = 0 /\ readers = 0 /\ ~writer
                    /\ BagCardinality(gs) = 1
                    /\ Launched(g, "sayHiMutex") + Launched(g, "incrementMutex") = 2 * LoopCount)

\* main waits at the last m.Lock() while sayHiMutex holds the read lock
C26_Witness ==
    /\ \E g \in Mains : g.fn = "mutexes" /\ Cur(g).op = "lock"
                        /\ Launched(g, "sayHiMutex") = LoopCount
    /\ readers = 1
    /\ LiveAt("sayHiMutex", 1) = 1

\* the goroutines of function fn that main g has launched and that have got
\* past their first statement
Past(g, fn) == Launched(g, fn) - LiveAt(fn, 1)

\* the lines of stdout that are l
CountLines(l) == Cardinality({k \in DOMAIN stdout : stdout[k] = l})

\* C29: in Channel basics Example 2 the three receivers and the three senders
\* of 33 share the unbuffered ch: as many senders have sent as receivers have
\* received, every receiver holds 33 and prints it once, and from the first
\* wg.Wait() on main reaches the return of the second one, where the three
\* lines 33 are printed and all six goroutines have ended.
C29_OneValueEach ==
    /\ [](\A g \in Mains :
            g.fn = "channelsMain" /\ WaitsBefore(g) = 1 =>
               /\ Past(g, "basicsEx2Sender") = Past(g, "basicsEx2Receiver")
               /\ \A t \in Live : t.fn = "basicsEx2Receiver" /\ t.pc > 1 => t.i = 33
               /\ CountLines("33") = Past(g, "basicsEx2Receiver") - LiveAt("basicsEx2Receiver", 2))
    /\ [](\A g \in Mains :
            g.fn = "channelsMain" /\ WaitsBefore(g) = 2 /\ JustWaited(g) =>
               /\ BagCardinality(gs) = 1
               /\ Launched(g, "basicsEx2Receiver") = BasicsLoopCount
               /\ Launched(g, "basicsEx2Sender") = BasicsLoopCount
               /\ stdout = <<"#### Channel basics ####", "42", "33", "33", "33">>)
    /\ ChannelsWaited(1) ~> ChannelsWaited(2)

\* all six goroutines are launched and none has communicated yet
C29_Witness ==
    /\ LiveAt("basicsEx2Receiver", 1) = BasicsLoopCount
    /\ LiveAt("basicsEx2Sender", 1) = BasicsLoopCount
    /\ \E g \in Mains : g.fn = "channelsMain" /\ Cur(g).op = "wait"

====
